---------------------------- MODULE Spec2Model ----------------------------
(***************************************************************************)
(* A model of xgboost-js (src/src/xgboost.js): the XGBoost class with its  *)
(* constructor, fit / _buildTree, predictSingle / predictBatch / _predict, *)
(* getFeatureImportance and toJSON / fromJSON.                             *)
(*                                                                         *)
(* Numbers.  The code computes in IEEE doubles and adds the constant 1e-10 *)
(* to every count it divides by.  The model computes exactly, to first     *)
(* order in e = 1e-10: a number is a triple <<p, q, d>>, d > 0, standing   *)
(* for (p + q*e) / d.  Terms in e^2 = 1e-20 are dropped; they lie below    *)
(* the resolution of a double for the magnitudes that occur here.  An      *)
(* order comparison looks at p first and at q when the p parts agree.      *)
(*                                                                         *)
(* Feature values.  A feature value is an integer that names a double: an  *)
(* integer below DenseFrom names itself, and DenseFrom + k names           *)
(* 2^53 + 2k, the k-th double from 2^53 on (the doubles of [2^53, 2^54)    *)
(* are the even integers).  The order of the names is the order of the     *)
(* doubles.  Sums and halves of small integers are exact in doubles; the   *)
(* sum of two doubles of [2^53, 2^54) is rounded to a multiple of 4.       *)
(*                                                                         *)
(* Objects.  A JavaScript array is an entry of `heap`; an ensemble holds   *)
(* the reference of its `trees` array, so two ensembles may hold the same  *)
(* array.  Tree nodes are never written after _buildTree returns, so a     *)
(* node is modelled by its value.                                          *)
(***************************************************************************)
EXTENDS Integers, Sequences, FiniteSets, TLC

VARIABLES
    trainX,  \* the feature matrix X every fit call of the run is given
    trainY,  \* the label vector y every fit call of the run is given
    models,  \* the XGBoost objects constructed so far, by name
    heap,    \* the contents of the `trees` arrays, by reference
    json,    \* the record the last toJSON call returned, or Null
    fits,    \* the number of fit calls made so far
    ret      \* the last call: its name, its receiver and what it returned

vars == <<trainX, trainY, models, heap, json, fits, ret>>

(***************************************************************************)
(* Bounds of the model.                                                    *)
(***************************************************************************)
\* the largest number of rows of a generated training set
MaxSamples == 3
\* the largest numRounds a constructor call is given
MaxRounds == 2
\* the largest number of fit calls in one run
MaxFits == 2

\* Op(v), with v evaluated once and then handed to Op as a value (a name
\* defined by LET is evaluated again wherever it is used)
Apply(Op(_), v) == CHOOSE out \in {Op(t) : t \in {v}} : TRUE

(***************************************************************************)
(* Arithmetic on <<p, q, d>> = (p + q*e)/d.                                *)
(***************************************************************************)
RECURSIVE Gcd(_, _)
Gcd(a, b) == IF b = 0 THEN a ELSE Gcd(b, a % b)

AbsInt(n) == IF n < 0 THEN -n ELSE n

Norm(p, q, d) ==
    LET g == Gcd(Gcd(AbsInt(p), AbsInt(q)), d)
    IN  <<p \div g, q \div g, d \div g>>

Rat(n, d) == Norm(n, 0, d)

Zero == Rat(0, 1)

\* the literal 1e-10 of the source
Epsilon == <<0, 1, 1>>

Add(x, y) ==
    LET g  == Gcd(x[3], y[3])
        mx == y[3] \div g
        my == x[3] \div g
    IN  Norm(x[1] * mx + y[1] * my, x[2] * mx + y[2] * my, x[3] * mx)

Neg(x) == <<-x[1], -x[2], x[3]>>

Sub(x, y) == Add(x, Neg(y))

\* x * y, the e^2 term dropped
Mul(x, y) ==
    LET g1 == Gcd(Gcd(AbsInt(x[1]), AbsInt(x[2])), y[3])
        g2 == Gcd(Gcd(AbsInt(y[1]), AbsInt(y[2])), x[3])
        xp == x[1] \div g1
        xq == x[2] \div g1
        yp == y[1] \div g2
        yq == y[2] \div g2
    IN  Norm(xp * yp, xp * yq + xq * yp, (x[3] \div g2) * (y[3] \div g1))

Sign(x) ==
    IF x[1] # 0 THEN (IF x[1] > 0 THEN 1 ELSE -1)
    ELSE IF x[2] # 0 THEN (IF x[2] > 0 THEN 1 ELSE -1)
    ELSE 0

Less(x, y) == Sign(Sub(x, y)) < 0

Leq(x, y) == Sign(Sub(x, y)) <= 0

\* Math.abs
Abs(x) == IF Sign(x) < 0 THEN Neg(x) ELSE x

\* x / (count + 1e-10) for an integer count >= 0:
\*   count > 0: (p + q*e) / (d*(c + e)) = (p*c + (q*c - p)*e) / (d*c*c);
\*   count = 0: x / 1e-10 = (q + 0*e)/d when p = 0 (only an empty sum, 0, is
\*   ever divided by a zero count).
DivCountEps(x, count) ==
    IF count = 0
    THEN Norm(x[2], 0, x[3])
    ELSE LET g == Gcd(Gcd(AbsInt(x[1]), AbsInt(x[2])), count)
             c == count \div g
         IN  Norm((x[1] \div g) * count, (x[2] \div g) * count - (x[1] \div g),
                  x[3] * c * count)

RECURSIVE SumSeq(_)
\* gradients.reduce((a, b) => a + b, 0)
SumSeq(s) == IF s = <<>> THEN Zero ELSE Add(SumSeq(SubSeq(s, 1, Len(s) - 1)), s[Len(s)])


(***************************************************************************)
(* Values of JavaScript that are not numbers.                              *)
(***************************************************************************)
\* null (bestSplit before a split is found, json before toJSON is called)
Null == [null |-> TRUE]

\* the exception of a property read on undefined (X[0].length, x[featureIndex])
TypeError == [thrown |-> "TypeError"]

(***************************************************************************)
(* class Node.  A field that is null in the JavaScript object is left out  *)
(* of the record: a leaf has isLeaf and value, an internal node isLeaf,    *)
(* featureIndex, threshold, left and right.  The fields samples, gradients *)
(* and depth are history fields: they record the arguments of the          *)
(* _buildTree call that made the node (samples by their row number in the  *)
(* X given to fit) and exist in no JavaScript object.                      *)
(***************************************************************************)
LeafNode(value, ids, gradients, depth) ==
    [isLeaf |-> TRUE, value |-> value,
     samples |-> ids, gradients |-> gradients, depth |-> depth]

InternalNode(featureIndex, threshold, left, right, ids, gradients, depth) ==
    [isLeaf |-> FALSE, featureIndex |-> featureIndex, threshold |-> threshold,
     left |-> left, right |-> right,
     samples |-> ids, gradients |-> gradients, depth |-> depth]

\* Array.from({length: X.length}, (_, i) => i).sort((a, b) => X[a][f] - X[b][f]):
\* the row numbers (from 1) in ascending order of feature f (from 0); the sort
\* is stable, so rows of equal value keep their order.
SortedIndices(rows, featureIdx) ==
    LET n == Len(rows)
        Before(a, b) == \/ rows[a][featureIdx + 1] < rows[b][featureIdx + 1]
                        \/ rows[a][featureIdx + 1] = rows[b][featureIdx + 1] /\ a < b
        Rank(a) == Cardinality({b \in 1..n : Before(b, a)}) + 1
    IN  [k \in 1..n |-> CHOOSE a \in 1..n : Rank(a) = k]

\* sortedIndices.slice(0, i): a slice that loses the row at the boundary
LeftIndicesShort(sortedIndices, i) == SubSeq(sortedIndices, 1, i - 1)

\* sortedIndices.slice(0, i + 1), i counted from 1 here
LeftIndices(sortedIndices, i) == SubSeq(sortedIndices, 1, i)

\* sortedIndices.slice(i + 1)
RightIndices(sortedIndices, i) == SubSeq(sortedIndices, i + 1, Len(sortedIndices))

\* leftSum after the loop body has run for the sorted positions 1..i
RECURSIVE LeftSum(_, _, _)
LeftSum(gradients, sortedIndices, i) ==
    IF i = 0 THEN Zero
    ELSE Add(LeftSum(gradients, sortedIndices, i - 1), gradients[sortedIndices[i]])

\* rightSum after the same iterations: sumGrad less every gradient moved left
RECURSIVE RightSum(_, _, _, _)
RightSum(sumGrad, gradients, sortedIndices, i) ==
    IF i = 0 THEN sumGrad
    ELSE Sub(RightSum(sumGrad, gradients, sortedIndices, i - 1),
             gradients[sortedIndices[i]])

\* leftSum^2/(leftCount + 1e-10) + rightSum^2/(rightCount + 1e-10)
\*   - sumGrad^2/(count + 1e-10)
Gain(leftSum, leftCount, rightSum, rightCount, sumGrad, count) ==
    Sub(Add(DivCountEps(Mul(leftSum, leftSum), leftCount),
            DivCountEps(Mul(rightSum, rightSum), rightCount)),
        DivCountEps(Mul(sumGrad, sumGrad), count))

\* the least feature value that names a double of [2^53, 2^54)
DenseFrom == 1000

\* (a + b) / 2 in doubles, for feature values a < b.
\*   Both small: the sum and its half are exact.
\*   Both dense, a = 2^53 + 2j and b = 2^53 + 2k: the sum 2^54 + 2(j + k) is
\*   a double when j + k is even; when j + k is odd it lies halfway between
\*   the doubles 2^54 + 2(j + k - 1) and 2^54 + 2(j + k + 1) and is rounded to
\*   the one of even significand, 2^54 + 4r with r the even one of
\*   (j + k - 1)/2 and (j + k + 1)/2.  The half, 2^53 + (j + k) or 2^53 + 2r,
\*   is exact.
\*   One small, one dense: the half is about 2^52, above every small and below
\*   every dense value, and is given as a number that lies so.
Midpoint(a, b) ==
    IF a < DenseFrom /\ b < DenseFrom THEN Rat(a + b, 2)
    ELSE IF a >= DenseFrom /\ b >= DenseFrom
    THEN LET jk == (a - DenseFrom) + (b - DenseFrom)
             h  == jk \div 2
         IN  IF jk % 2 = 0 THEN Rat(2 * DenseFrom + jk, 2)
             ELSE IF h % 2 = 0 THEN Rat(DenseFrom + h, 1)
             ELSE Rat(DenseFrom + h + 1, 1)
    ELSE Rat(2 * DenseFrom - 1, 2)

\* (X[sortedIndices[i]][f] + X[sortedIndices[i + 1]][f]) / 2
Threshold(rows, sortedIndices, featureIdx, i) ==
    Midpoint(rows[sortedIndices[i]][featureIdx + 1],
             rows[sortedIndices[i + 1]][featureIdx + 1])

\* if (gain >= bestGain) {...}: a comparison that lets a later candidate of
\* equal gain replace the one found first
TakeIfNotWorse(rows, featureIdx, sortedIndices, i, best, gain) ==
    IF Leq(best.gain, gain)
    THEN [gain  |-> gain,
          split |-> [featureIndex |-> featureIdx,
                     threshold    |-> Threshold(rows, sortedIndices, featureIdx, i),
                     leftIndices  |-> LeftIndices(sortedIndices, i),
                     rightIndices |-> RightIndices(sortedIndices, i)]]
    ELSE best

\* if (gain > bestGain) { bestGain = gain; bestSplit = {...} }
TakeIfBetter(rows, featureIdx, sortedIndices, i, best, gain) ==
    IF Less(best.gain, gain)
    THEN [gain  |-> gain,
          split |-> [featureIndex |-> featureIdx,
                     threshold    |-> Threshold(rows, sortedIndices, featureIdx, i),
                     leftIndices  |-> LeftIndices(sortedIndices, i),
                     rightIndices |-> RightIndices(sortedIndices, i)]]
    ELSE best

\* The inner loop of the split search for feature featureIdx, from sorted
\* position i (from 1) on; best = [gain |-> bestGain, split |-> bestSplit].
RECURSIVE ScanFeature(_, _, _, _, _, _, _, _)
ScanFeature(rows, gradients, sumGrad, count, featureIdx, sortedIndices, i, best) ==
    IF i > Len(sortedIndices) - 1 THEN best
    ELSE IF rows[sortedIndices[i]][featureIdx + 1]
               = rows[sortedIndices[i + 1]][featureIdx + 1]
    THEN ScanFeature(rows, gradients, sumGrad, count, featureIdx, sortedIndices,
                     i + 1, best)
    ELSE LET leftSum    == LeftSum(gradients, sortedIndices, i)
             rightSum   == RightSum(sumGrad, gradients, sortedIndices, i)
             leftCount  == i
             rightCount == count - i
             Take(gain) == TakeIfBetter(rows, featureIdx, sortedIndices, i, best, gain)
             Rest(b)    == ScanFeature(rows, gradients, sumGrad, count, featureIdx,
                                       sortedIndices, i + 1, b)
         IN  Apply(Rest,
                   Apply(Take, Gain(leftSum, leftCount, rightSum, rightCount,
                                    sumGrad, count)))

\* The outer loop of the split search, from feature featureIdx on.
RECURSIVE FindBestSplit(_, _, _, _, _, _)
FindBestSplit(rows, gradients, sumGrad, count, featureIdx, best) ==
    IF featureIdx >= Len(rows[1]) THEN best
    ELSE LET Scan(sortedIndices) ==
                 ScanFeature(rows, gradients, sumGrad, count, featureIdx,
                             sortedIndices, 1, best)
             Rest(b) == FindBestSplit(rows, gradients, sumGrad, count,
                                      featureIdx + 1, b)
         IN  Apply(Rest, Apply(Scan, SortedIndices(rows, featureIdx)))

\* depth >= this.maxDepth || count < this.minChildWeight: a stopping rule that
\* does not look at the sum of the gradients
StopAtDepthOrWeight(self, depth, count, sumGrad) ==
    \/ depth >= self.maxDepth
    \/ count < self.minChildWeight

\* depth >= this.maxDepth || count < this.minChildWeight || Math.abs(sumGrad) < 1e-10
Stop(self, depth, count, sumGrad) ==
    \/ depth >= self.maxDepth
    \/ count < self.minChildWeight
    \/ Less(Abs(sumGrad), Epsilon)

\* node.value = sumGrad / (count + 1e-10)
LeafValue(sumGrad, count) == DivCountEps(sumGrad, count)

\* indices.map(i => a[i])
Gather(a, indices) == [k \in 1..Len(indices) |-> a[indices[k]]]

\* _buildTree from `// Find best split` on, for a node that is not stopped
RECURSIVE BuildTree(_, _, _, _, _)
SplitOrLeaf(self, rows, ids, gradients, depth, sumGrad) ==
    LET count == Len(gradients)
        leaf  == LeafNode(LeafValue(sumGrad, count), ids, gradients, depth)
        Make(best) ==
            IF best.split = Null \/ Less(best.gain, Epsilon) THEN leaf
            ELSE LET l == best.split.leftIndices
                     r == best.split.rightIndices
                 IN  InternalNode(
                        best.split.featureIndex, best.split.threshold,
                        BuildTree(self, Gather(rows, l), Gather(ids, l),
                                  Gather(gradients, l), depth + 1),
                        BuildTree(self, Gather(rows, r), Gather(ids, r),
                                  Gather(gradients, r), depth + 1),
                        ids, gradients, depth)
    IN  Apply(Make, FindBestSplit(rows, gradients, sumGrad, count, 0,
                                  [gain |-> Zero, split |-> Null]))

\* _buildTree(X, gradients, depth) of the ensemble self; ids names the rows of
\* X by their row number in the X given to fit.  The result is the node, or
\* TypeError when X[0].length is read of an empty X.
BuildTree(self, rows, ids, gradients, depth) ==
    LET Build(sumGrad) ==
            IF Stop(self, depth, Len(gradients), sumGrad)
            THEN LeafNode(LeafValue(sumGrad, Len(gradients)), ids, gradients, depth)
            ELSE IF Len(rows) = 0 THEN TypeError
            ELSE SplitOrLeaf(self, rows, ids, gradients, depth, sumGrad)
    IN  Apply(Build, SumSeq(gradients))

\* _predict(x, node), x a feature vector
RECURSIVE Predict(_, _)
Predict(x, node) ==
    IF node.isLeaf THEN node.value
    ELSE IF Leq(Rat(x[node.featureIndex + 1], 1), node.threshold)
         THEN Predict(x, node.left)
         ELSE Predict(x, node.right)

\* predictions.map((pred, idx) => pred + this.learningRate * this._predict(X[idx], tree))
\* for a tree that is a leaf, or an X with a row for every prediction
UpdatePredictions(self, rows, predictions, tree) ==
    [idx \in 1..Len(predictions) |->
        Add(predictions[idx],
            Mul(self.learningRate,
                IF tree.isLeaf THEN tree.value ELSE Predict(rows[idx], tree)))]

\* The rounds i, i+1, ... of the loop of fit, on the array contents `trees`.
\* The result is the array contents when fit ends and whether it ended by an
\* exception: of _buildTree, before the push of that round, or of
\* _predict(X[idx], tree) with X[idx] undefined and tree an internal node,
\* after the push (predictions is assigned only when map has returned).
RECURSIVE FitRounds(_, _, _, _, _, _)
FitRounds(self, rows, labels, i, predictions, trees) ==
    IF i >= self.numRounds THEN [trees |-> trees, thrown |-> FALSE]
    ELSE LET gradients == [idx \in 1..Len(labels) |->
                              Sub(Rat(labels[idx], 1), predictions[idx])]
             Round(tree) ==
                 IF tree = TypeError THEN [trees |-> trees, thrown |-> TRUE]
                 ELSE IF ~tree.isLeaf /\ Len(rows) < Len(predictions)
                 THEN [trees |-> Append(trees, [root |-> tree]), thrown |-> TRUE]
                 ELSE LET Rest(updated) ==
                              FitRounds(self, rows, labels, i + 1, updated,
                                        Append(trees, [root |-> tree]))
                      IN  Apply(Rest, UpdatePredictions(self, rows, predictions, tree))
         IN  Apply(Round, Apply(LAMBDA g : BuildTree(self, rows,
                                                     [k \in 1..Len(rows) |-> k], g, 0),
                                gradients))

(***************************************************************************)
(* class XGBoost.  An ensemble is a record of its four hyperparameters and *)
(* the reference of its trees array; `given` is a history field, the       *)
(* params argument its constructor was called with.                        *)
(***************************************************************************)
\* the defaults of the constructor
DefaultLearningRate == Rat(3, 10)
DefaultMaxDepth == 4
DefaultMinChildWeight == 1
DefaultNumRounds == 100

\* params.k || default, for a number k: undefined (no field k) and 0 are falsy
OrDefault(params, k, zero, default) ==
    IF k \in DOMAIN params /\ params[k] # zero THEN params[k] ELSE default

\* new XGBoost(params); ref is the reference of the new array this.trees = []
Constructor(params, ref) ==
    [learningRate   |-> OrDefault(params, "learningRate", Zero, DefaultLearningRate),
     maxDepth       |-> OrDefault(params, "maxDepth", 0, DefaultMaxDepth),
     minChildWeight |-> OrDefault(params, "minChildWeight", 0, DefaultMinChildWeight),
     numRounds      |-> OrDefault(params, "numRounds", 0, DefaultNumRounds),
     trees          |-> ref,
     given          |-> params]

\* let predictions = new Array(y.length).fill(0.5)
BaseScore == Rat(1, 2)

\* 1 / (1 + Math.exp(-pred)).  The exponential has no exact value here: the
\* result is named by its argument.  The function is strictly increasing, so
\* two results are equal, or ordered, as their arguments are, and the result
\* of the argument 0 is 0.5.
Sigmoid(pred) == [sigmoid |-> pred]

\* the sum of learningRate * _predict(x, tree.root) over the first n trees
RECURSIVE RawScore(_, _, _, _)
RawScore(self, trees, x, n) ==
    IF n = 0 THEN BaseScore
    ELSE Add(RawScore(self, trees, x, n - 1),
             Mul(self.learningRate, Predict(x, trees[n].root)))

\* predictSingle(x), trees the contents of this.trees
PredictSingle(self, trees, x) == Sigmoid(RawScore(self, trees, x, Len(trees)))

\* predictBatch(X)
PredictBatch(self, trees, batch) ==
    [k \in 1..Len(batch) |-> PredictSingle(self, trees, batch[k])]

\* An element of the importance array: a number, NaN, or a hole (an index
\* below length that was never assigned).
Number(n) == [number |-> n]
NaN == [NaN |-> TRUE]
Hole == [hole |-> TRUE]

\* _getNumFeatures(node)
RECURSIVE GetNumFeatures(_)
GetNumFeatures(node) ==
    IF node = Null THEN 0
    ELSE IF node.isLeaf THEN 0
    ELSE LET a == node.featureIndex + 1
             l == GetNumFeatures(node.left)
             r == GetNumFeatures(node.right)
             m == IF a >= l THEN a ELSE l
         IN  IF m >= r THEN m ELSE r

\* if (k < importance.length) importance[k]++ : an increment that does not
\* write at or beyond length
IncrementInRange(importance, k) ==
    IF k + 1 <= Len(importance)
    THEN [importance EXCEPT ![k + 1] =
             IF "number" \in DOMAIN @ THEN Number(@.number + 1) ELSE NaN]
    ELSE importance

\* importance[k]++ : a number is incremented; undefined (a hole, or an index at
\* or beyond length) becomes NaN and stays NaN; an assignment at or beyond
\* length extends the array, leaving holes below k
Increment(importance, k) ==
    IF k + 1 <= Len(importance)
    THEN [importance EXCEPT ![k + 1] =
             IF "number" \in DOMAIN @ THEN Number(@.number + 1) ELSE NaN]
    ELSE importance \o [j \in 1..(k - Len(importance)) |-> Hole] \o <<NaN>>

\* _traverseTreeForImportance(node, importance): the array after the call
RECURSIVE TraverseTreeForImportance(_, _)
TraverseTreeForImportance(node, importance) ==
    IF node = Null THEN importance
    ELSE IF node.isLeaf THEN importance
    ELSE TraverseTreeForImportance(node.right,
             TraverseTreeForImportance(node.left,
                 Increment(importance, node.featureIndex)))

\* this.trees.forEach(tree => ...), over the first n trees
RECURSIVE TraverseTrees(_, _, _)
TraverseTrees(trees, n, importance) ==
    IF n = 0 THEN importance
    ELSE TraverseTreeForImportance(trees[n].root,
                                   TraverseTrees(trees, n - 1, importance))

\* getFeatureImportance(), trees the contents of this.trees
GetFeatureImportance(trees) ==
    IF Len(trees) = 0 THEN <<>>
    ELSE LET numFeatures == GetNumFeatures(trees[1].root)
         IN  TraverseTrees(trees, Len(trees), [j \in 1..numFeatures |-> Number(0)])

\* toJSON(): the record holds the array this.trees itself, not a copy
ToJSONRecord(self) ==
    [trees  |-> self.trees,
     params |-> [learningRate   |-> self.learningRate,
                 maxDepth       |-> self.maxDepth,
                 minChildWeight |-> self.minChildWeight,
                 numRounds      |-> self.numRounds]]

\* new XGBoost(), then model.trees = json.trees: a fromJSON that drops the
\* params of the record
FromJSONNoParams(record) == Constructor(<<>>, record.trees)

\* XGBoost.fromJSON(json): new XGBoost(json.params), then model.trees =
\* json.trees; the array the constructor made is referenced by nothing and is
\* not kept in heap
FromJSON(record) == Constructor(record.params, record.trees)

(***************************************************************************)
(* The inputs of a run: the argument of the constructor and the training   *)
(* set.                                                                    *)
(***************************************************************************)
\* the records of S1 joined with the records of S2
Join(S1, S2) == {a @@ b : a \in S1, b \in S2}

\* the params arguments given to new XGBoost: numRounds is always given (the
\* default is 100 rounds); beside it nothing (the defaults), or maxDepth 0 (the
\* zero-depth model of the specification), or minChildWeight 2, or maxDepth 1
\* with learningRate 1 (the tiny separable set of the specification)
ParamChoices ==
    Join({<<>>,
          ("maxDepth" :> 0),
          ("minChildWeight" :> 2),
          ("maxDepth" :> 1) @@ ("learningRate" :> Rat(1, 1))},
         {("numRounds" :> r) : r \in 1..MaxRounds})

Labels == {0, 1}

FeatureValues == {0, 1}

\* the feature vectors of a generated training set: two features
Rows == {<<a, b>> : a \in FeatureValues, b \in FeatureValues}

\* sample j of a training set does not come before sample k in the order of
\* (feature 0, feature 1, label)
InOrder(x, l, j, k) ==
    \/ x[j][1] < x[k][1]
    \/ x[j][1] = x[k][1] /\ x[j][2] < x[k][2]
    \/ x[j][1] = x[k][1] /\ x[j][2] = x[k][2] /\ l[j] <= l[k]

\* The training sets of k rows of Rows with k labels, the samples in ascending
\* order: a set is generated in one order of its samples, not in all.
SetsOfSize(k) ==
    {d \in {[X |-> x, y |-> l] : x \in [1..k -> Rows], l \in [1..k -> Labels]} :
        \A j \in 1..(k - 1) : InOrder(d.X, d.y, j, j + 1)}

\* the generated training sets: of 1..MaxSamples samples
GeneratedSets == UNION {SetsOfSize(k) : k \in 1..MaxSamples}

\* one matrix of three different rows, out of order, with every label vector
DesignSets ==
    {[X |-> <<<<1, 0>>, <<0, 0>>, <<0, 1>>>>, y |-> l] : l \in [1..3 -> Labels]}

\* the tiny separable set and the no-variance set of the specification
ScenarioSets ==
    {[X |-> <<<<0, 0>>, <<10, 10>>>>, y |-> <<0, 1>>]}
    \cup {[X |-> <<<<5, 5>>, <<5, 5>>, <<5, 5>>>>, y |-> l] : l \in [1..3 -> Labels]}

\* Arguments that break the precondition of fit: no sample at all; rows of
\* different arity; X and y of different lengths.  Rows of different arity,
\* and an X longer than y, come with labels whose gradients sum to 0, or with
\* no label: _buildTree then returns before it reads a feature or a gradient
\* that is not there (such a read gives undefined, and NaN in the sums).
InvalidSets ==
    {[X |-> <<>>, y |-> <<>>],
     [X |-> <<<<1, 2>>, <<3>>>>, y |-> <<0, 1>>],
     [X |-> <<<<0, 0>>, <<1, 1>>, <<0, 1>>>>, y |-> <<0, 1>>],
     [X |-> <<<<0, 0>>, <<1, 1>>>>, y |-> <<>>],
     [X |-> <<<<0, 0>>, <<1, 1>>>>, y |-> <<0, 1, 1>>],
     [X |-> <<>>, y |-> <<1>>]}

\* matrices with three different values in a feature, so that a feature has
\* two candidate boundaries, with every label vector
TieSets ==
    {[X |-> x, y |-> l] :
        x \in {<<<<0, 0>>, <<1, 1>>, <<2, 2>>>>,
               <<<<0, 0>>, <<0, 1>>, <<0, 2>>>>,
               <<<<2, 0>>, <<0, 0>>, <<1, 0>>>>},
        l \in [1..3 -> Labels]}

\* matrices whose feature 0 holds doubles next to each other (2^53 + 2,
\* 2^53 + 4; 2^53, 2^53 + 2, 2^53 + 6), with every label vector
DenseSets ==
    {[X |-> x, y |-> l] :
        x \in {<<<<DenseFrom + 1, 0>>, <<DenseFrom + 2, 0>>, <<DenseFrom + 2, 0>>>>,
               <<<<DenseFrom, 0>>, <<DenseFrom + 1, 0>>, <<DenseFrom + 3, 0>>>>},
        l \in [1..3 -> Labels]}

TrainingSets ==
    GeneratedSets \cup DesignSets \cup ScenarioSets \cup InvalidSets \cup TieSets
        \cup DenseSets

\* the training sets of the runs that also predict and serialize
RoundTripSets == DesignSets \cup ScenarioSets

\* the precondition of fit: at least one sample, every row of the arity of the
\* first, as many labels as rows
ValidInput(rows, labels) ==
    /\ Len(rows) > 0
    /\ \A k \in 1..Len(rows) : Len(rows[k]) = Len(rows[1])
    /\ Len(rows) = Len(labels)

\* the batch given to predictBatch
Batch == <<<<0, 0>>, <<0, 1>>, <<1, 0>>, <<1, 1>>, <<10, 10>>>>

\* the names of the ensembles of a run: m1 is made by new XGBoost(params), m2
\* by XGBoost.fromJSON
ModelNames == {"m1", "m2"}

\* the contents of the trees array of ensemble m
TreesOf(m) == heap[models[m].trees]

(***************************************************************************)
(* The state after `const m1 = new XGBoost(params)`, with a training set   *)
(* of S at hand.                                                           *)
(***************************************************************************)
InitWith(S) ==
    /\ \E d \in S : trainX = d.X /\ trainY = d.y
    /\ \E params \in ParamChoices : models = ("m1" :> Constructor(params, 1))
    /\ heap = <<<<>>>>
    /\ json = Null
    /\ fits = 0
    /\ ret = [op |-> "new", m |-> "m1"]

Init == InitWith(TrainingSets)

InitJSON == InitWith(RoundTripSets)

\* the same with a training set that keeps the precondition of fit
InitValid == InitWith(TrainingSets \ InvalidSets)

(***************************************************************************)
(* m.fit(trainX, trainY).  `before` is a history field: the contents of    *)
(* every ensemble's trees array when fit was called.                       *)
(***************************************************************************)
CallFit(m) ==
    /\ m \in DOMAIN models
    /\ fits < MaxFits
    /\ \E r \in {FitRounds(models[m], trainX, trainY, 0,
                            [idx \in 1..Len(trainY) |-> BaseScore], TreesOf(m))} :
           /\ heap' = [heap EXCEPT ![models[m].trees] = r.trees]
           /\ ret' = [op |-> "fit", m |-> m, thrown |-> r.thrown,
                      before |-> [n \in DOMAIN models |-> TreesOf(n)]]
    /\ fits' = fits + 1
    /\ UNCHANGED <<trainX, trainY, models, json>>

(***************************************************************************)
(* json = m.toJSON()                                                       *)
(***************************************************************************)
CallToJSON(m) ==
    /\ m \in DOMAIN models
    /\ json' = ToJSONRecord(models[m])
    /\ ret' = [op |-> "toJSON", m |-> m]
    /\ UNCHANGED <<trainX, trainY, models, heap, fits>>

(***************************************************************************)
(* const m2 = XGBoost.fromJSON(json).  `from` is a history field: the      *)
(* ensemble whose toJSON made the record.                                  *)
(***************************************************************************)
CallFromJSON ==
    /\ json # Null
    /\ "m2" \notin DOMAIN models
    /\ ret.op = "toJSON"
    /\ models' = models @@ ("m2" :> FromJSON(json))
    /\ ret' = [op |-> "fromJSON", m |-> "m2", from |-> ret.m]
    /\ UNCHANGED <<trainX, trainY, heap, json, fits>>

(***************************************************************************)
(* m.getFeatureImportance()                                                *)
(***************************************************************************)
CallGetFeatureImportance(m) ==
    /\ m \in DOMAIN models
    /\ ret' = [op |-> "getFeatureImportance", m |-> m,
               result |-> GetFeatureImportance(TreesOf(m))]
    /\ UNCHANGED <<trainX, trainY, models, heap, json, fits>>

(***************************************************************************)
(* m.predictBatch(Batch)                                                   *)
(***************************************************************************)
CallPredictBatch(m) ==
    /\ m \in DOMAIN models
    /\ ret' = [op |-> "predictBatch", m |-> m,
               result |-> PredictBatch(models[m], TreesOf(m), Batch)]
    /\ UNCHANGED <<trainX, trainY, models, heap, json, fits>>

\* training one ensemble and reading its feature importance
Next ==
    \/ \E m \in ModelNames : CallFit(m)
    \/ \E m \in ModelNames : CallGetFeatureImportance(m)

Spec == Init /\ [][Next]_vars

\* the same runs on the training sets that keep the precondition of fit
SpecValid == InitValid /\ [][Next]_vars

\* the same with prediction and with serialization, which makes the second
\* ensemble
NextJSON ==
    \/ \E m \in ModelNames : CallFit(m)
    \/ \E m \in ModelNames : CallGetFeatureImportance(m)
    \/ \E m \in ModelNames : CallPredictBatch(m)
    \/ \E m \in ModelNames : CallToJSON(m)
    \/ CallFromJSON

SpecJSON == InitJSON /\ [][NextJSON]_vars

(***************************************************************************)
(* What the properties below read of a state.                              *)
(***************************************************************************)
\* the nodes of the tree of root `node`
RECURSIVE NodesOf(_)
NodesOf(node) ==
    IF node.isLeaf THEN {node}
    ELSE {node} \cup NodesOf(node.left) \cup NodesOf(node.right)

\* the nodes of all trees of ensemble m
AllNodes(m) == UNION {NodesOf(TreesOf(m)[k].root) : k \in 1..Len(TreesOf(m))}

\* the internal nodes of all trees of ensemble m
InternalNodes(m) == {n \in AllNodes(m) : ~n.isLeaf}

\* the number of internal nodes of the tree of root `node`
RECURSIVE CountInternal(_)
CountInternal(node) ==
    IF node.isLeaf THEN 0
    ELSE 1 + CountInternal(node.left) + CountInternal(node.right)

\* the number of internal nodes of the first n trees
RECURSIVE CountInternalOfTrees(_, _)
CountInternalOfTrees(trees, n) ==
    IF n = 0 THEN 0
    ELSE CountInternalOfTrees(trees, n - 1) + CountInternal(trees[n].root)

\* the sum of the first n entries of an importance array whose entries are
\* all numbers
RECURSIVE SumNumbers(_, _)
SumNumbers(importance, n) ==
    IF n = 0 THEN 0 ELSE SumNumbers(importance, n - 1) + importance[n].number

\* the largest element of a non-empty set of integers
Max(S) == CHOOSE a \in S : \A b \in S : b <= a

\* the place of row number id in the sequence ids
Position(ids, id) == CHOOSE k \in 1..Len(ids) : ids[k] = id

\* the elements of a sequence
Range(s) == {s[k] : k \in 1..Len(s)}

\* the maxDepth the constructor of ensemble m was given; the documented
\* default when it was given none
GivenMaxDepth(m) ==
    IF "maxDepth" \in DOMAIN models[m].given
    THEN models[m].given["maxDepth"]
    ELSE DefaultMaxDepth

\* the last call was a fit on arguments that break the precondition of fit
InvalidFit == ret.op = "fit" /\ ~ValidInput(trainX, trainY)

\* the scenario of the tiny separable set: m1, constructed with maxDepth 1,
\* numRounds 1 and learningRate 1, has just been fitted, once, on
\* X = [[0,0],[10,10]], y = [0,1]
TinySeparableFitted ==
    /\ trainX = <<<<0, 0>>, <<10, 10>>>>
    /\ trainY = <<0, 1>>
    /\ models["m1"].given = ("maxDepth" :> 1) @@ ("learningRate" :> Rat(1, 1))
                              @@ ("numRounds" :> 1)
    /\ ret.op = "fit" /\ ret.m = "m1" /\ fits = 1

(***************************************************************************)
(* C1.  fit(X, y) fails whenever the sample count is zero, a row of X has  *)
(* an arity different from the first row's, or X.length # y.length, and    *)
(* the failure comes before any tree is appended to the ensemble.  (Any    *)
(* exception counts as the failure here, whatever its name.)               *)
(***************************************************************************)
C1_InvalidInputRejected ==
    InvalidFit => ret.thrown /\ TreesOf(ret.m) = ret.before[ret.m]

(***************************************************************************)
(* C2.  Serialization round trip: the ensemble fromJSON(m.toJSON()) has    *)
(* the four hyperparameters of m, the same ordered list of trees, and      *)
(* predictBatch gives, element by element, the results m gives.  (Equal    *)
(* arguments of the sigmoid: a difference of 0.)                           *)
(***************************************************************************)
C2_RoundTrip ==
    ret.op = "fromJSON" =>
        LET a == models[ret.from]
            b == models[ret.m]
        IN  /\ b.learningRate = a.learningRate
            /\ b.maxDepth = a.maxDepth
            /\ b.minChildWeight = a.minChildWeight
            /\ b.numRounds = a.numRounds
            /\ TreesOf(ret.m) = TreesOf(ret.from)
            /\ PredictBatch(b, TreesOf(ret.m), Batch)
                 = PredictBatch(a, TreesOf(ret.from), Batch)

\* a trained ensemble, of a learning rate that is not the default and a tree
\* that splits, has gone through the round trip
C2_Witness ==
    /\ ret.op = "fromJSON"
    /\ models[ret.from].learningRate # DefaultLearningRate
    /\ \E k \in 1..Len(TreesOf(ret.from)) : ~TreesOf(ret.from)[k].root.isLeaf

(***************************************************************************)
(* C3.  Ensembles share no mutable state: a fit on one ensemble changes    *)
(* the tree list of no other ensemble (in particular after                 *)
(* m2 = fromJSON(m1.toJSON())).                                            *)
(***************************************************************************)
C3_NoSharedState ==
    ret.op = "fit" =>
        \A n \in DOMAIN models \ {ret.m} : TreesOf(n) = ret.before[n]

(***************************************************************************)
(* C4.  getFeatureImportance() returns a sequence whose entries are all    *)
(* non-negative integers and sum to the number of internal nodes of all    *)
(* trees of the ensemble.                                                  *)
(***************************************************************************)
C4_ImportanceCounts ==
    ret.op = "getFeatureImportance" =>
        /\ \A k \in 1..Len(ret.result) :
               "number" \in DOMAIN ret.result[k] /\ ret.result[k].number >= 0
        /\ SumNumbers(ret.result, Len(ret.result))
             = CountInternalOfTrees(TreesOf(ret.m), Len(TreesOf(ret.m)))

(***************************************************************************)
(* C5.  getFeatureImportance() returns a sequence of length 1 + the        *)
(* largest featureIndex of the internal nodes of all trees of the          *)
(* ensemble, and the empty sequence when the ensemble has no internal node *)
(* (no tree at all included).                                              *)
(***************************************************************************)
C5_ImportanceLength ==
    ret.op = "getFeatureImportance" =>
        Len(ret.result) =
            IF InternalNodes(ret.m) = {} THEN 0
            ELSE 1 + Max({n.featureIndex : n \in InternalNodes(ret.m)})

\* the importance of an ensemble whose first tree splits, and on features
\* that all lie below a feature a later tree splits on
C5_Witness ==
    /\ ret.op = "getFeatureImportance"
    /\ Len(TreesOf(ret.m)) > 1
    /\ ~TreesOf(ret.m)[1].root.isLeaf
    /\ GetNumFeatures(TreesOf(ret.m)[1].root) < Len(ret.result)

(***************************************************************************)
(* C6, as the specification states it.  On the tiny separable set, with    *)
(* maxDepth 1, numRounds 1 and learningRate 1, fit produces a single tree  *)
(* whose root is an internal node that splits on one of the two features   *)
(* with a threshold strictly between 0 and 10, and                         *)
(* predictSingle([0,0]) < 0.5 < predictSingle([10,10]).  (0.5 is the       *)
(* sigmoid of 0.)                                                          *)
(***************************************************************************)
C6_TinySeparableSplits ==
    TinySeparableFitted =>
        LET trees == TreesOf("m1")
            self  == models["m1"]
        IN  /\ Len(trees) = 1
            /\ ~trees[1].root.isLeaf
            /\ trees[1].root.featureIndex \in {0, 1}
            /\ Less(Rat(0, 1), trees[1].root.threshold)
            /\ Less(trees[1].root.threshold, Rat(10, 1))
            /\ Less(PredictSingle(self, trees, <<0, 0>>).sigmoid, Zero)
            /\ Less(Zero, PredictSingle(self, trees, <<10, 10>>).sigmoid)

(***************************************************************************)
(* C6, as the code behaves.  On the tiny separable set, with maxDepth 1,   *)
(* numRounds 1 and learningRate 1, fit produces a single tree that is one  *)
(* leaf of value 0 (the gradients -0.5 and 0.5 sum to 0, which stops the   *)
(* root), and predictSingle([0,0]) = predictSingle([10,10]) = the sigmoid  *)
(* of 0.5, which is above 0.5.                                             *)
(***************************************************************************)
C6_TinySeparableStalls ==
    TinySeparableFitted =>
        LET trees == TreesOf("m1")
            self  == models["m1"]
        IN  /\ ~ret.thrown
            /\ Len(trees) = 1
            /\ trees[1].root.isLeaf
            /\ trees[1].root.value = Zero
            /\ PredictSingle(self, trees, <<0, 0>>) = Sigmoid(Rat(1, 2))
            /\ PredictSingle(self, trees, <<10, 10>>) = Sigmoid(Rat(1, 2))
            /\ Less(Sigmoid(Zero).sigmoid, PredictSingle(self, trees, <<0, 0>>).sigmoid)

\* the scenario has run: the fit has returned and left its one tree
C6_Witness == TinySeparableFitted /\ ~ret.thrown /\ Len(TreesOf("m1")) = 1

(***************************************************************************)
(* C7.  When the ensemble is constructed with maxDepth = 0, every tree     *)
(* produced by fit is a single leaf, made of the whole sample set, whose   *)
(* value is sumGrad/(count + e) of the gradients of its round.             *)
(***************************************************************************)
C7_ZeroDepthLeaves ==
    \A m \in DOMAIN models :
        GivenMaxDepth(m) = 0 =>
            \A k \in 1..Len(TreesOf(m)) :
                LET root == TreesOf(m)[k].root
                IN  /\ root.isLeaf
                    /\ root.value = DivCountEps(SumSeq(root.gradients),
                                                Len(root.gradients))

(***************************************************************************)
(* C8.  Depth bound: no node of a tree of an ensemble (the root at depth   *)
(* 0) lies deeper than the maxDepth the ensemble was constructed with.     *)
(***************************************************************************)
C8_DepthBound ==
    \A m \in DOMAIN models : \A n \in AllNodes(m) : n.depth <= GivenMaxDepth(m)

\* the same bound with the field this.maxDepth, which the constructor sets
\* to 4 when it is given maxDepth 0, in place of the maxDepth it was given
DepthWithinStoredMaxDepth ==
    \A m \in DOMAIN models : \A n \in AllNodes(m) : n.depth <= models[m].maxDepth

(***************************************************************************)
(* C9.  Split validity: the child partitions of every internal node are    *)
(* both non-empty, are disjoint, and together hold every sample of the     *)
(* parent partition exactly once, each sample with the gradient it has in  *)
(* the parent.                                                             *)
(***************************************************************************)
C9_SplitValidity ==
    \A m \in DOMAIN models : \A n \in InternalNodes(m) :
        /\ Len(n.left.samples) > 0
        /\ Len(n.right.samples) > 0
        /\ Range(n.left.samples) \cap Range(n.right.samples) = {}
        /\ Range(n.left.samples) \cup Range(n.right.samples) = Range(n.samples)
        /\ Len(n.left.samples) + Len(n.right.samples) = Len(n.samples)
        /\ Cardinality(Range(n.samples)) = Len(n.samples)
        /\ \A c \in {n.left, n.right} :
               /\ Len(c.gradients) = Len(c.samples)
               /\ \A k \in 1..Len(c.samples) :
                      c.gradients[k] = n.gradients[Position(n.samples, c.samples[k])]

\* a split of three samples, whose rows are not in the order of the feature
\* the node splits on
C9_Witness ==
    \E m \in DOMAIN models : \E n \in InternalNodes(m) :
        /\ Len(n.samples) = 3
        /\ n.left.samples \o n.right.samples # n.samples

(***************************************************************************)
(* C10.  minChildWeight is the minimum weight needed in a child: each of   *)
(* the two child partitions of every internal node holds at least          *)
(* minChildWeight samples.                                                 *)
(***************************************************************************)
C10_MinChildWeight ==
    \A m \in DOMAIN models : \A n \in InternalNodes(m) :
        /\ Len(n.left.samples) >= models[m].minChildWeight
        /\ Len(n.right.samples) >= models[m].minChildWeight

(***************************************************************************)
(* C11.  In every round of every fit call the gradients handed to          *)
(* _buildTree come from the ensemble as it is at the start of the round:   *)
(* gradient[j] = y[j] - (0.5 + the sum of learningRate * _predict(x[j],    *)
(* t.root) over the trees t then in the ensemble), the raw score           *)
(* predictSingle uses for x[j].  (The gradients of the round of tree k are *)
(* those recorded in its root; the trees then in the ensemble are the      *)
(* k - 1 trees before it.)                                                 *)
(***************************************************************************)
C11_GradientsFromEnsemble ==
    ValidInput(trainX, trainY) =>
        \A m \in DOMAIN models : \A k \in 1..Len(TreesOf(m)) :
            \A j \in 1..Len(trainY) :
                TreesOf(m)[k].root.gradients[j]
                  = Sub(Rat(trainY[j], 1),
                        RawScore(models[m], TreesOf(m), trainX[j], k - 1))

\* the same for the rounds of the first fit call only, which starts with an
\* ensemble of no tree
GradientsFromEnsembleInFirstFit ==
    (ValidInput(trainX, trainY) /\ fits <= 1) =>
        \A m \in DOMAIN models : \A k \in 1..Len(TreesOf(m)) :
            \A j \in 1..Len(trainY) :
                TreesOf(m)[k].root.gradients[j]
                  = Sub(Rat(trainY[j], 1),
                        RawScore(models[m], TreesOf(m), trainX[j], k - 1))

(***************************************************************************)
(* The candidate splits of a _buildTree call, as the split search meets    *)
(* them: <<f, i>> is the boundary behind sorted position i (from 1) of     *)
(* feature f (from 0).                                                     *)
(***************************************************************************)
\* the boundaries the scan does not skip: those between two different values
SplitCandidates(rows) ==
    {c \in (0..(Len(rows[1]) - 1)) \X (1..(Len(rows) - 1)) :
        LET sortedIndices == SortedIndices(rows, c[1])
        IN  rows[sortedIndices[c[2]]][c[1] + 1]
              # rows[sortedIndices[c[2] + 1]][c[1] + 1]}

\* the gain the scan computes at candidate c
CandidateGain(rows, gradients, c) ==
    LET sortedIndices == SortedIndices(rows, c[1])
        sumGrad       == SumSeq(gradients)
    IN  Gain(LeftSum(gradients, sortedIndices, c[2]), c[2],
             RightSum(sumGrad, gradients, sortedIndices, c[2]),
             Len(gradients) - c[2], sumGrad, Len(gradients))

\* candidate c is met before candidate d
MetBefore(c, d) == c[1] < d[1] \/ (c[1] = d[1] /\ c[2] < d[2])

\* the candidate an internal node was split at: its feature, and as many
\* sorted positions on the left as its left child has samples
ChosenCandidate(n) == <<n.featureIndex, Len(n.left.samples)>>

\* the rows of X a node was built from
RowsOf(n) == Gather(trainX, n.samples)

(***************************************************************************)
(* C12.  Split tie-breaking: the split of every internal node is a         *)
(* candidate boundary between two different adjacent values (never one     *)
(* between equal values), its gain is the largest of all candidates, and   *)
(* every candidate met before it (a lower feature index, or the same       *)
(* feature and a lower threshold) has a strictly smaller gain: among       *)
(* candidates of equal maximal gain the first found is selected.           *)
(***************************************************************************)
C12_FirstBestSplit ==
    ValidInput(trainX, trainY) =>
        \A m \in DOMAIN models : \A n \in InternalNodes(m) :
            LET rows   == RowsOf(n)
                chosen == ChosenCandidate(n)
                sorted == SortedIndices(rows, chosen[1])
                best   == CandidateGain(rows, n.gradients, chosen)
            IN  /\ chosen \in SplitCandidates(rows)
                /\ n.threshold = Threshold(rows, sorted, chosen[1], chosen[2])
                /\ n.left.samples = Gather(n.samples, LeftIndices(sorted, chosen[2]))
                /\ n.right.samples = Gather(n.samples, RightIndices(sorted, chosen[2]))
                /\ \A c \in SplitCandidates(rows) :
                       /\ Leq(CandidateGain(rows, n.gradients, c), best)
                       /\ MetBefore(c, chosen)
                            => Less(CandidateGain(rows, n.gradients, c), best)

\* an internal node whose split ties, in gain, with a later candidate of its
\* own feature and with a candidate of a later feature
C12_Witness ==
    /\ ValidInput(trainX, trainY)
    /\ \E m \in DOMAIN models : \E n \in InternalNodes(m) :
           LET rows   == RowsOf(n)
               chosen == ChosenCandidate(n)
               best   == CandidateGain(rows, n.gradients, chosen)
           IN  /\ \E c \in SplitCandidates(rows) :
                      /\ c[1] = chosen[1] /\ c[2] > chosen[2]
                      /\ CandidateGain(rows, n.gradients, c) = best
               /\ \E c \in SplitCandidates(rows) :
                      /\ c[1] > chosen[1]
                      /\ CandidateGain(rows, n.gradients, c) = best

\* the leaf _predict(x, node) returns the value of
RECURSIVE ReachedLeaf(_, _)
ReachedLeaf(x, node) ==
    IF node.isLeaf THEN node
    ELSE IF Leq(Rat(x[node.featureIndex + 1], 1), node.threshold)
         THEN ReachedLeaf(x, node.left)
         ELSE ReachedLeaf(x, node.right)

\* every training sample is routed, in every tree of m, to the leaf that was
\* built from a partition holding it, and the value of every leaf is
\* sumGrad/(count + e) of the gradients its samples have at the root
RoutedAsBuilt(m) ==
    \A k \in 1..Len(TreesOf(m)) :
        LET root == TreesOf(m)[k].root
        IN  /\ \A j \in 1..Len(trainX) :
                   j \in Range(ReachedLeaf(trainX[j], root).samples)
            /\ \A leaf \in {n \in NodesOf(root) : n.isLeaf} :
                   /\ leaf.gradients
                        = [i \in 1..Len(leaf.samples) |->
                              root.gradients[Position(root.samples, leaf.samples[i])]]
                   /\ leaf.value = LeafValue(SumSeq(leaf.gradients),
                                             Len(leaf.gradients))

(***************************************************************************)
(* C13.  Routing consistency: for every tree and every training sample,    *)
(* _predict (x[featureIndex] <= threshold goes left) reaches the leaf      *)
(* whose partition at build time held the sample, so the value of each     *)
(* leaf, sumGrad/(count + e), is computed from the gradients of exactly    *)
(* the samples routed to it.                                               *)
(***************************************************************************)
C13_RoutingConsistency ==
    ValidInput(trainX, trainY) => \A m \in DOMAIN models : RoutedAsBuilt(m)

\* the same for the training sets of small feature values, whose midpoints
\* are exact
RoutingConsistencyOfExactMidpoints ==
    (/\ ValidInput(trainX, trainY)
     /\ \A j \in 1..Len(trainX) : \A f \in 1..Len(trainX[j]) :
            trainX[j][f] < DenseFrom)
        => \A m \in DOMAIN models : RoutedAsBuilt(m)

\* the labels satisfy: the sum of y[j] - 0.5 is 0
Balanced(labels) ==
    SumSeq([j \in 1..Len(labels) |-> Sub(Rat(labels[j], 1), Rat(1, 2))]) = Zero

\* the last call was the first fit of the run, on an ensemble of no tree, with
\* balanced labels
BalancedFirstFit == ret.op = "fit" /\ fits = 1 /\ Balanced(trainY)

(***************************************************************************)
(* C14.  Balanced-label stall: when the sum of y[j] - 0.5 over the labels  *)
(* is 0, fit on a fresh ensemble appends numRounds trees that are all      *)
(* single leaves of value 0, whatever the features are, and predictSingle  *)
(* then returns sigmoid(0.5), the constant of the untrained ensemble, for  *)
(* every input.                                                            *)
(***************************************************************************)
C14_BalancedStall ==
    BalancedFirstFit =>
        LET trees == TreesOf(ret.m)
            self  == models[ret.m]
        IN  /\ ~ret.thrown
            /\ Len(trees) = self.numRounds
            /\ \A k \in 1..Len(trees) :
                   trees[k].root.isLeaf /\ trees[k].root.value = Zero
            /\ \A k \in 1..Len(Batch) :
                   /\ PredictSingle(self, trees, Batch[k]) = Sigmoid(Rat(1, 2))
                   /\ PredictSingle(self, trees, Batch[k])
                        = PredictSingle(self, <<>>, Batch[k])

\* a first fit of two rounds on balanced labels whose two classes a feature
\* separates
C14_Witness ==
    /\ BalancedFirstFit
    /\ Len(TreesOf(ret.m)) = 2
    /\ Len(trainX) = 2 /\ Len(trainY) = 2
    /\ trainX[1][1] < trainX[2][1]
    /\ trainY[1] # trainY[2]

=============================================================================
